---- MODULE Spec2Model ----
(***************************************************************************)
(* Model of src/server/settings.rs: ServiceConfig (policy values, the      *)
(* cached clock and date header, the shared byte-buffer pool) and          *)
(* ServiceConfigBuilder.                                                   *)
(*                                                                         *)
(* Bytes are ASCII codes, an Instant is a number of milliseconds since the *)
(* process started, the wall clock is a number of seconds since the epoch. *)
(***************************************************************************)
EXTENDS Integers, Sequences, FiniteSets

VARIABLES
    builder,    \* the ServiceConfigBuilder being configured, NoBuilder once finish(self) consumed it
    heap,       \* the Rc<Inner> allocations: a sequence of Inner records
    handles,    \* the live ServiceConfig handles of the callers: each an index into heap
    tasks,      \* the futures spawned on the event loop, not yet run: [s: heap index, due: Instant]
    clock,      \* Instant::now(), in ms since the process started
    start,      \* time::get_time() at process start, in seconds since the epoch
    call,       \* the most recent call: [op, h: the handle, arg, val: what it returned]
    seen,       \* per `full` flag: dst before and after the first set_date since a task last ran
    log,        \* what the builder was told: [touched, secure, shutdown, policy, unresolved]
    relStreak,  \* releases in a row into a pool that was empty, up to POOL_LIMIT + 1
    getStreak,  \* get_bytes calls in a row right after POOL_LIMIT + 1 or more such releases
    grown,      \* the capacity of the buffers handed to release_bytes so far, added up
    panicked,   \* a slice index in Date::write_str was out of range
    run         \* per handle: where the set_date or now() entered through it stands, Idle if none

vars == <<builder, heap, handles, tasks, clock, start, call, seen, log,
          relStreak, getStreak, grown, panicked, run>>

----------------------------------------------------------------------------
(* Bounds of the model *)

\* the event loop's clock stops advancing here (ms)
MaxClock == 1500
\* granularity of the passage of time (ms)
TickMs == 500
\* how many ServiceConfig handles the callers hold at most
MaxHandles == 2
\* the capacity of the buffers handed to release_bytes, added up, at most
MaxGrown == 1

----------------------------------------------------------------------------
(* Program constants *)

DATE_VALUE_LENGTH == 29
\* the delay of the periodic date update (ms)
DATE_UPDATE_MS == 500
\* release_bytes keeps a buffer only while the pool holds fewer than this
POOL_LIMIT == 128

----------------------------------------------------------------------------
(* Option<T> *)

None == [some |-> FALSE]
Some(v) == [some |-> TRUE, val |-> v]

(* super::KeepAlive *)
Timeout(n) == [tag |-> "Timeout", val |-> n]
Os == [tag |-> "Os"]
Disabled == [tag |-> "Disabled"]

----------------------------------------------------------------------------
(* time::at_utc(time::get_time()).rfc822(): "%a, %d %b %Y %T GMT" *)

Digit(d) == 48 + d
Pad2(n) == <<Digit((n \div 10) % 10), Digit(n % 10)>>
Pad4(n) == <<Digit((n \div 1000) % 10), Digit((n \div 100) % 10),
             Digit((n \div 10) % 10), Digit(n % 10)>>

\* "Sun" .. "Sat"
DayName(wd) ==
    <<  <<83, 117, 110>>, <<77, 111, 110>>, <<84, 117, 101>>, <<87, 101, 100>>,
        <<84, 104, 117>>, <<70, 114, 105>>, <<83, 97, 116>> >>[wd + 1]

\* "Jan" .. "Dec"
MonthName(m) ==
    <<  <<74, 97, 110>>, <<70, 101, 98>>, <<77, 97, 114>>, <<65, 112, 114>>,
        <<77, 97, 121>>, <<74, 117, 110>>, <<74, 117, 108>>, <<65, 117, 103>>,
        <<83, 101, 112>>, <<79, 99, 116>>, <<78, 111, 118>>, <<68, 101, 99>> >>[m]

\* the broken-down UTC time of `secs` seconds since the epoch
AtUtc(secs) ==
    LET days == secs \div 86400
        rem  == secs % 86400
        z    == days + 719468
        era  == z \div 146097
        doe  == z - era * 146097
        yoe  == (doe - doe \div 1460 + doe \div 36524 - doe \div 146096) \div 365
        doy  == doe - (365 * yoe + yoe \div 4 - yoe \div 100)
        mp   == (5 * doy + 2) \div 153
        mon  == IF mp < 10 THEN mp + 3 ELSE mp - 9
    IN  [ wday |-> (days + 4) % 7,
          mday |-> doy - (153 * mp + 2) \div 5 + 1,
          mon  |-> mon,
          year |-> yoe + era * 400 + (IF mon <= 2 THEN 1 ELSE 0),
          hour |-> rem \div 3600,
          min  |-> (rem % 3600) \div 60,
          sec  |-> rem % 60 ]

\* the element of a set of one element
One(S) == CHOOSE x \in S : TRUE

\* the text the formatter hands to fmt::Write::write_str, piece by piece
Rfc822(secs) ==
    One({ DayName(tm.wday) \o <<44, 32>> \o Pad2(tm.mday) \o <<32>> \o MonthName(tm.mon)
          \o <<32>> \o Pad4(tm.year) \o <<32>> \o Pad2(tm.hour) \o <<58>> \o Pad2(tm.min)
          \o <<58>> \o Pad2(tm.sec) \o <<32>> \o <<71, 77, 84>> : tm \in {AtUtc(secs)} })

\* the same text in the pieces the formatter hands to write_str, one call for
\* each: the date "%a, %d %b %Y ", the time of day "%T" and the zone " GMT"
Rfc822Pieces(secs) ==
    One({ << DayName(tm.wday) \o <<44, 32>> \o Pad2(tm.mday) \o <<32>> \o MonthName(tm.mon)
                 \o <<32>> \o Pad4(tm.year) \o <<32>>,
             Pad2(tm.hour) \o <<58>> \o Pad2(tm.min) \o <<58>> \o Pad2(tm.sec),
             <<32, 71, 77, 84>> >> : tm \in {AtUtc(secs)} })

\* time::get_time() when the Instant is t
WallSecs(t) == start + t \div 1000

----------------------------------------------------------------------------
(* struct Date and impl fmt::Write for Date *)

\* s is copied over self.bytes[self.pos..self.pos + len]; when that slice index is
\* out of range the result is longer than the buffer, see Overflowed
write_str(d, s) ==
    [d EXCEPT !.bytes = SubSeq(@, 1, d.pos) \o s \o SubSeq(@, d.pos + Len(s) + 1, Len(@)),
              !.pos = @ + Len(s)]

\* Date::update without self.pos = 0: the text is written behind the last one
DateUpdateNoReset(d, t) ==
    write_str([d EXCEPT !.current = t], Rfc822(WallSecs(t)))

\* Date::update at Instant t. write! hands the text to write_str piece by piece,
\* each piece behind the one before: as one write_str of the whole text does
DateUpdate(d, t) ==
    write_str([d EXCEPT !.pos = 0, !.current = t], Rfc822(WallSecs(t)))

\* a slice index self.bytes[self.pos..self.pos + len] of a write_str was out of
\* range: pos only grows, so this is when it ends beyond the buffer
Overflowed(d) == d.pos > DATE_VALUE_LENGTH

\* Date::new at Instant t
DateNew(t) ==
    DateUpdate([current |-> t, bytes |-> [i \in 1..DATE_VALUE_LENGTH |-> 0], pos |-> 0], t)

----------------------------------------------------------------------------
(* ServiceConfig *)

\* ServiceConfig::new without the test keep_alive > 0
ServiceConfigNewAnyTimeout(keep_alive, client_timeout, client_shutdown, t) ==
    LET m == IF keep_alive.tag = "Timeout" THEN <<keep_alive.val, TRUE>>
             ELSE IF keep_alive.tag = "Os" THEN <<0, TRUE>>
             ELSE <<0, FALSE>>
        ka == m[1]
        ka_enabled == m[2]
    IN  [ keep_alive      |-> IF ka_enabled THEN Some(ka) ELSE None,
          ka_enabled      |-> ka_enabled,
          client_timeout  |-> client_timeout,
          client_shutdown |-> client_shutdown,
          bytes           |-> <<>>,
          date            |-> <<FALSE, DateNew(t)>> ]

\* ServiceConfig::new at Instant t: the Inner it allocates
ServiceConfigNew(keep_alive, client_timeout, client_shutdown, t) ==
    LET m == IF keep_alive.tag = "Timeout" THEN <<keep_alive.val, TRUE>>
             ELSE IF keep_alive.tag = "Os" THEN <<0, TRUE>>
             ELSE <<0, FALSE>>
        ka == m[1]
        ka_enabled == m[2]
    IN  [ keep_alive      |-> IF ka_enabled /\ ka > 0 THEN Some(ka) ELSE None,
          ka_enabled      |-> ka_enabled,
          client_timeout  |-> client_timeout,
          client_shutdown |-> client_shutdown,
          bytes           |-> <<>>,
          date            |-> <<FALSE, DateNew(t)>> ]

\* Clone copying the Inner instead of the Rc: the new handle has its own
CloneInner(h) ==
    [heap |-> Append(heap, heap[handles[h]]), handle |-> Len(heap) + 1]

\* impl Clone for ServiceConfig: the new handle points to the same Inner, and
\* nothing is allocated
CloneHandle(h) == [heap |-> heap, handle |-> handles[h]]

\* what a call does to the Inner it reads, which future it spawns, what it returns
Result(inner, spawn, val, panic) ==
    [inner |-> inner, spawn |-> spawn, val |-> val, panic |-> panic]

\* ReadDate without the test of the flag: every read formats the date
ReadDateUncached(i, t) ==
    LET inner == heap[i]
        d == DateUpdate(inner.date[2], t)
    IN  Result([inner EXCEPT !.date = <<TRUE, d>>],
               <<[s |-> i, due |-> t + DATE_UPDATE_MS]>>,
               None,
               Overflowed(d))

\* ReadDate with the spawn outside the test of the flag: every read spawns a task
ReadDateSpawning(i, t) ==
    LET inner == heap[i]
        d == DateUpdate(inner.date[2], t)
        task == <<[s |-> i, due |-> t + DATE_UPDATE_MS]>>
    IN  IF ~inner.date[1]
        THEN Result([inner EXCEPT !.date = <<TRUE, d>>], task, None, Overflowed(d))
        ELSE Result(inner, task, None, FALSE)

\* ReadDate without date.0 = true: the date is refreshed and the task is spawned
\* but the cache is not marked valid
ReadDateUnmarked(i, t) ==
    LET inner == heap[i]
        d == DateUpdate(inner.date[2], t)
    IN  IF ~inner.date[1]
        THEN Result([inner EXCEPT !.date = <<FALSE, d>>],
                    <<[s |-> i, due |-> t + DATE_UPDATE_MS]>>,
                    None,
                    Overflowed(d))
        ELSE Result(inner, <<>>, None, FALSE)

\* ReadDate without the spawn: the date is refreshed but no task will invalidate it
ReadDateUnscheduled(i, t) ==
    LET inner == heap[i]
        d == DateUpdate(inner.date[2], t)
    IN  IF ~inner.date[1]
        THEN Result([inner EXCEPT !.date = <<TRUE, d>>], <<>>, None, Overflowed(d))
        ELSE Result(inner, <<>>, None, FALSE)

\* the block shared by set_date and now: refresh the date if it is not valid and
\* spawn the task that invalidates it again
ReadDate(i, t) ==
    LET inner == heap[i]
        d == DateUpdate(inner.date[2], t)
    IN  IF ~inner.date[1]
        THEN Result([inner EXCEPT !.date = <<TRUE, d>>],
                    <<[s |-> i, due |-> t + DATE_UPDATE_MS]>>,
                    None,
                    Overflowed(d))
        ELSE Result(inner, <<>>, None, FALSE)

\* DateBlock with one line end after the value
DateBlockOneLineEnd(date_bytes, full) ==
    IF full
    THEN <<100, 97, 116, 101, 58, 32>> \o date_bytes \o <<13, 10>>
    ELSE date_bytes

\* the bytes set_date appends to dst
DateBlock(date_bytes, full) ==
    IF full
    THEN <<100, 97, 116, 101, 58, 32>> \o date_bytes \o <<13, 10, 13, 10>>
    ELSE date_bytes

set_date(i, t, dst, full) ==
    LET r == ReadDate(i, t)
    IN  [r EXCEPT !.val = dst \o DateBlock(r.inner.date[2].bytes, full)]

now(i, t) ==
    LET r == ReadDate(i, t)
    IN  [r EXCEPT !.val = r.inner.date[2].current]

NoRead(i, val) == Result(heap[i], <<>>, val, FALSE)

client_timer(i, t) ==
    LET delay == heap[i].client_timeout
    IN  IF delay # 0
        THEN LET r == now(i, t) IN [r EXCEPT !.val = Some(r.val + delay)]
        ELSE NoRead(i, None)

client_timer_expire(i, t) ==
    LET delay == heap[i].client_timeout
    IN  IF delay # 0
        THEN LET r == now(i, t) IN [r EXCEPT !.val = Some(r.val + delay)]
        ELSE NoRead(i, None)

\* client_shutdown_timer reading the client timeout instead
client_shutdown_timer_of_timeout(i, t) ==
    LET delay == heap[i].client_timeout
    IN  IF delay # 0
        THEN LET r == now(i, t) IN [r EXCEPT !.val = Some(r.val + delay)]
        ELSE NoRead(i, None)

client_shutdown_timer(i, t) ==
    LET delay == heap[i].client_shutdown
    IN  IF delay # 0
        THEN LET r == now(i, t) IN [r EXCEPT !.val = Some(r.val + delay)]
        ELSE NoRead(i, None)

\* keep_alive_timer reading the clock before it looks at the configuration
keep_alive_timer_reading(i, t) ==
    LET ka == heap[i].keep_alive
        r == now(i, t)
    IN  IF ka.some
        THEN [r EXCEPT !.val = Some(r.val + 1000 * ka.val)]
        ELSE [r EXCEPT !.val = None]

keep_alive_timer(i, t) ==
    LET ka == heap[i].keep_alive
    IN  IF ka.some
        THEN LET r == now(i, t) IN [r EXCEPT !.val = Some(r.val + 1000 * ka.val)]
        ELSE NoRead(i, None)

keep_alive_expire(i, t) ==
    LET ka == heap[i].keep_alive
    IN  IF ka.some
        THEN LET r == now(i, t) IN [r EXCEPT !.val = Some(r.val + 1000 * ka.val)]
        ELSE NoRead(i, None)

keep_alive(i) == NoRead(i, heap[i].keep_alive)

keep_alive_enabled(i) == NoRead(i, heap[i].ka_enabled)

\* update_date leaving the flag as it is
update_date_kept(i) == heap[i]

\* update_date formatting the date itself instead of leaving it to the next read
update_date_eager(i) == [heap[i] EXCEPT !.date = <<FALSE, DateUpdate(@[2], clock)>>]

\* update_date, run by the spawned future
update_date(i) == [heap[i] EXCEPT !.date = <<FALSE, @[2]>>]

----------------------------------------------------------------------------
(* SharedBytesPool: the front of the VecDeque is the head of the sequence *)

\* BytesMut::new()
BytesMutNew == [len |-> 0, cap |-> 0]

\* BytesMut::clear: the length becomes 0, the capacity stays
Clear(bytes) == [bytes EXCEPT !.len = 0]

\* get_bytes taking from the back of the VecDeque
get_bytes_back(pool) ==
    IF pool # <<>>
    THEN [bytes |-> pool[Len(pool)], pool |-> SubSeq(pool, 1, Len(pool) - 1), fresh |-> FALSE]
    ELSE [bytes |-> BytesMutNew, pool |-> pool, fresh |-> TRUE]

get_bytes(pool) ==
    IF pool # <<>>
    THEN [bytes |-> Head(pool), pool |-> Tail(pool), fresh |-> FALSE]
    ELSE [bytes |-> BytesMutNew, pool |-> pool, fresh |-> TRUE]

\* release_bytes making room in a full pool: the buffer at the back is dropped
release_bytes_evicting(pool, bytes) ==
    IF Len(pool) < POOL_LIMIT
    THEN <<Clear(bytes)>> \o pool
    ELSE <<Clear(bytes)>> \o SubSeq(pool, 1, Len(pool) - 1)

\* release_bytes with <= in the test of the length
release_bytes_inclusive(pool, bytes) ==
    IF Len(pool) <= POOL_LIMIT
    THEN <<Clear(bytes)>> \o pool
    ELSE pool

\* release_bytes without the call of clear
release_bytes_uncleared(pool, bytes) ==
    IF Len(pool) < POOL_LIMIT
    THEN <<bytes>> \o pool
    ELSE pool

release_bytes(pool, bytes) ==
    IF Len(pool) < POOL_LIMIT
    THEN <<Clear(bytes)>> \o pool
    ELSE pool

----------------------------------------------------------------------------
(* ServiceConfigBuilder *)

NoBuilder == [consumed |-> TRUE]

\* ServiceConfigBuilder::new with the secure flag set
BuilderNewSecure ==
    [ keep_alive      |-> Timeout(5),
      client_timeout  |-> 5000,
      client_shutdown |-> 5000,
      secure          |-> TRUE,
      host            |-> "localhost",
      addr            |-> "127.0.0.1:8080" ]

\* ServiceConfigBuilder::new
BuilderNew ==
    [ keep_alive      |-> Timeout(5),
      client_timeout  |-> 5000,
      client_shutdown |-> 5000,
      secure          |-> FALSE,
      host            |-> "localhost",
      addr            |-> "127.0.0.1:8080" ]

secure(b) == [b EXCEPT !.secure = TRUE]

builder_keep_alive(b, val) == [b EXCEPT !.keep_alive = val]

client_timeout(b, val) == [b EXCEPT !.client_timeout = val]

client_shutdown(b, val) == [b EXCEPT !.client_shutdown = val]

server_hostname(b, val) == [b EXCEPT !.host = val]

\* server_address falling back to the unspecified address when none was resolved
server_address_or_unspecified(b, res) ==
    IF res.err \/ res.addrs = <<>> THEN [b EXCEPT !.addr = "0.0.0.0:0"]
    ELSE [b EXCEPT !.addr = Head(res.addrs)]

\* res is what addr.to_socket_addrs() gave: an error, or the addresses
server_address(b, res) ==
    IF res.err THEN b
    ELSE IF res.addrs # <<>> THEN [b EXCEPT !.addr = Head(res.addrs)]
    ELSE b

\* finish passing client_shutdown on whether secure or not
finish_ungated(b, t) ==
    ServiceConfigNew(b.keep_alive, b.client_timeout, b.client_shutdown, t)

\* ServiceConfigBuilder::finish at Instant t: the Inner of the ServiceConfig
finish(b, t) ==
    LET shutdown == IF b.secure THEN b.client_shutdown ELSE 0
    IN  ServiceConfigNew(b.keep_alive, b.client_timeout, shutdown, t)

----------------------------------------------------------------------------
(* What the callers pass in *)

StartTimes == {784111777, 951868799}
KeepAliveInputs == {Timeout(0), Timeout(5), Timeout(75), Os, Disabled}
TimeoutInputs == {0, 3000}
HostInputs == {"example.com"}
ResolveInputs == { [err |-> TRUE, addrs |-> <<>>],
                   [err |-> FALSE, addrs |-> <<>>],
                   [err |-> FALSE, addrs |-> <<"10.0.0.1:80", "10.0.0.2:80">>] }
DstInputs == {<<>>, <<120>>}
BufInputs == {b \in [len : 0..MaxGrown, cap : 0..MaxGrown] : b.len <= b.cap}

NoArg == <<>>
NotSeen == [f \in BOOLEAN |-> None]
NoLog == [touched |-> FALSE, secure |-> FALSE, shutdown |-> None, policy |-> None,
          unresolved |-> FALSE]

\* no call is running through a handle
Idle == [pc |-> "idle"]
NoRun == [h \in 1..MaxHandles |-> Idle]

----------------------------------------------------------------------------
(* Steps *)

Tick ==
    /\ clock + TickMs <= MaxClock
    /\ clock' = clock + TickMs
    /\ UNCHANGED <<builder, heap, handles, tasks, start, call, seen, log,
                   relStreak, getStreak, grown, panicked, run>>

\* the least of a set of numbers
Least(S) == CHOOSE x \in S : \A y \in S : x <= y

\* time passes for an event loop that is on time: up to the next instant a sleep
\* is over and no further, and not at all while a future whose sleep is over has
\* not been run
TimerTick ==
    /\ \A k \in DOMAIN tasks : tasks[k].due > clock
    /\ \E next \in {Least({clock + TickMs} \cup {tasks[k].due : k \in DOMAIN tasks})} :
          /\ next <= MaxClock
          /\ clock' = next
    /\ UNCHANGED <<builder, heap, handles, tasks, start, call, seen, log,
                   relStreak, getStreak, grown, panicked, run>>

\* a builder method: the builder is moved through it
BuilderStep(op, arg, b, l) ==
    /\ builder # NoBuilder
    /\ builder' = b
    /\ log' = [l EXCEPT !.touched = TRUE]
    /\ call' = [op |-> op, h |-> 0, arg |-> arg, val |-> None]
    /\ UNCHANGED <<heap, handles, tasks, clock, start, seen,
                   relStreak, getStreak, grown, panicked, run>>

BuilderSecure ==
    BuilderStep("secure", NoArg, secure(builder), [log EXCEPT !.secure = TRUE])

BuilderKeepAlive ==
    \E val \in KeepAliveInputs :
        BuilderStep("keep_alive", val, builder_keep_alive(builder, val),
                    [log EXCEPT !.policy = Some(val)])

BuilderClientTimeout ==
    \E val \in TimeoutInputs :
        BuilderStep("client_timeout", val, client_timeout(builder, val), log)

BuilderClientShutdown ==
    \E val \in TimeoutInputs :
        BuilderStep("client_shutdown", val, client_shutdown(builder, val),
                    [log EXCEPT !.shutdown = Some(val)])

BuilderServerHostname ==
    \E val \in HostInputs :
        BuilderStep("server_hostname", val, server_hostname(builder, val), log)

BuilderServerAddress ==
    \E res \in ResolveInputs :
        BuilderStep("server_address", res, server_address(builder, res),
                    [log EXCEPT !.unresolved = @ \/ res.err \/ res.addrs = <<>>])

BuilderFinish ==
    /\ builder # NoBuilder
    /\ builder' = NoBuilder
    /\ \E inner \in {finish(builder, clock)} :
          IF Overflowed(inner.date[2])
          THEN /\ panicked' = TRUE
               /\ UNCHANGED <<heap, handles, call>>
          ELSE /\ heap' = Append(heap, inner)
               /\ handles' = Append(handles, Len(heap) + 1)
               /\ call' = [op |-> "finish", h |-> 0, arg |-> NoArg, val |-> Len(handles) + 1]
               /\ UNCHANGED panicked
    /\ UNCHANGED <<tasks, clock, start, seen, log, relStreak, getStreak, grown, run>>

\* a call through handle h with result r
CallStep(h, op, arg, r) ==
    /\ IF r.panic
       THEN /\ panicked' = TRUE
            /\ UNCHANGED <<heap, tasks, call>>
       ELSE /\ heap' = [heap EXCEPT ![handles[h]] = r.inner]
            /\ tasks' = tasks \o r.spawn
            /\ call' = [op |-> op, h |-> h, arg |-> arg, val |-> r.val]
            /\ UNCHANGED panicked
    /\ UNCHANGED <<builder, handles, clock, start, log, relStreak, getStreak, grown, run>>

CallKeepAlive ==
    \E h \in DOMAIN handles :
        \E r \in {keep_alive(handles[h])} :
            CallStep(h, "keep_alive", NoArg, r) /\ UNCHANGED seen

CallKeepAliveEnabled ==
    \E h \in DOMAIN handles :
        \E r \in {keep_alive_enabled(handles[h])} :
            CallStep(h, "keep_alive_enabled", NoArg, r) /\ UNCHANGED seen

CallNow ==
    \E h \in DOMAIN handles :
        \E r \in {now(handles[h], clock)} :
            CallStep(h, "now", NoArg, r) /\ UNCHANGED seen

CallClientTimer ==
    \E h \in DOMAIN handles :
        \E r \in {client_timer(handles[h], clock)} :
            CallStep(h, "client_timer", NoArg, r) /\ UNCHANGED seen

CallClientTimerExpire ==
    \E h \in DOMAIN handles :
        \E r \in {client_timer_expire(handles[h], clock)} :
            CallStep(h, "client_timer_expire", NoArg, r) /\ UNCHANGED seen

CallClientShutdownTimer ==
    \E h \in DOMAIN handles :
        \E r \in {client_shutdown_timer(handles[h], clock)} :
            CallStep(h, "client_shutdown_timer", NoArg, r) /\ UNCHANGED seen

CallKeepAliveTimer ==
    \E h \in DOMAIN handles :
        \E r \in {keep_alive_timer(handles[h], clock)} :
            CallStep(h, "keep_alive_timer", NoArg, r) /\ UNCHANGED seen

CallKeepAliveExpire ==
    \E h \in DOMAIN handles :
        \E r \in {keep_alive_expire(handles[h], clock)} :
            CallStep(h, "keep_alive_expire", NoArg, r) /\ UNCHANGED seen

\* what a set_date that turned dst into val appended
Appended(dst, val) == SubSeq(val, Len(dst) + 1, Len(val))

CallSetDate ==
    \E h \in DOMAIN handles, dst \in DstInputs, full \in BOOLEAN :
        \E r \in {set_date(handles[h], clock, dst, full)} :
            /\ CallStep(h, "set_date", [dst |-> dst, full |-> full], r)
            /\ seen' = IF r.panic \/ seen[full].some THEN seen
                       ELSE [seen EXCEPT ![full] = Some([dst |-> dst, val |-> r.val])]

CallClone ==
    \E h \in DOMAIN handles :
        /\ Len(handles) < MaxHandles
        /\ \E r \in {CloneHandle(h)} :
              /\ heap' = r.heap
              /\ handles' = Append(handles, r.handle)
        /\ call' = [op |-> "clone", h |-> h, arg |-> NoArg, val |-> Len(handles) + 1]
        /\ UNCHANGED <<builder, tasks, clock, start, seen, log,
                       relStreak, getStreak, grown, panicked, run>>

\* the event loop runs a spawned future whose sleep is over
RunTask ==
    \E k \in DOMAIN tasks :
        /\ tasks[k].due <= clock
        /\ heap' = [heap EXCEPT ![tasks[k].s] = update_date(tasks[k].s)]
        /\ tasks' = SubSeq(tasks, 1, k - 1) \o SubSeq(tasks, k + 1, Len(tasks))
        /\ seen' = NotSeen
        /\ UNCHANGED <<builder, handles, clock, start, call, log,
                       relStreak, getStreak, grown, panicked, run>>

----------------------------------------------------------------------------
(* set_date and now() statement by statement *)

\* ServiceConfig is an Rc and its futures are spawned on the current thread
\* with nothing shared across threads
NotExclusive == TRUE

\* ServiceConfig is an Rc, neither Send nor Sync, and its futures are spawned on
\* the executor of the current thread: a call or a future is entered only when
\* no call is running
Exclusive == \A h \in DOMAIN run : run[h] = Idle

\* the call through handle h moves on to frame f
Goto(h, f) == run' = [run EXCEPT ![h] = f]

\* set_date(dst, full) or now() is entered through handle h
Enter(h, op, arg) ==
    /\ Exclusive
    /\ run[h] = Idle
    /\ Goto(h, [pc |-> "test", op |-> op, arg |-> arg])
    /\ UNCHANGED <<builder, heap, handles, tasks, clock, start, call, seen, log,
                   relStreak, getStreak, grown, panicked>>

EnterSetDate ==
    \E h \in DOMAIN handles, dst \in DstInputs, full \in BOOLEAN :
        Enter(h, "set_date", [dst |-> dst, full |-> full])

EnterNow == \E h \in DOMAIN handles : Enter(h, "now", NoArg)

\* if !date.0
StepTest(h) ==
    /\ run[h].pc = "test"
    /\ Goto(h, [run[h] EXCEPT !.pc = IF ~heap[handles[h]].date[1] THEN "update" ELSE "read"])
    /\ UNCHANGED <<builder, heap, handles, tasks, clock, start, call, seen, log,
                   relStreak, getStreak, grown, panicked>>

\* Date::update up to the first write_str: pos and current are set and the
\* formatter has the broken-down time
StepUpdate(h) ==
    /\ run[h].pc = "update"
    /\ heap' = [heap EXCEPT ![handles[h]].date[2] = [@ EXCEPT !.pos = 0, !.current = clock]]
    /\ \E todo \in {Rfc822Pieces(WallSecs(clock))} :
          Goto(h, [pc |-> "write", op |-> run[h].op, arg |-> run[h].arg, todo |-> todo])
    /\ UNCHANGED <<builder, handles, tasks, clock, start, call, seen, log,
                   relStreak, getStreak, grown, panicked>>

\* one write_str of the formatter; after the last one Date::update returns
StepWrite(h) ==
    /\ run[h].pc = "write"
    /\ \E d \in {write_str(heap[handles[h]].date[2], Head(run[h].todo))} :
          IF Overflowed(d)
          THEN /\ panicked' = TRUE
               /\ UNCHANGED <<heap, run>>
          ELSE /\ heap' = [heap EXCEPT ![handles[h]].date[2] = d]
               /\ Goto(h, IF Len(run[h].todo) > 1
                          THEN [run[h] EXCEPT !.todo = Tail(@)]
                          ELSE [pc |-> "mark", op |-> run[h].op, arg |-> run[h].arg])
               /\ UNCHANGED panicked
    /\ UNCHANGED <<builder, handles, tasks, clock, start, call, seen, log,
                   relStreak, getStreak, grown>>

\* date.0 = true
StepMark(h) ==
    /\ run[h].pc = "mark"
    /\ heap' = [heap EXCEPT ![handles[h]].date[1] = TRUE]
    /\ Goto(h, [run[h] EXCEPT !.pc = "spawn"])
    /\ UNCHANGED <<builder, handles, tasks, clock, start, call, seen, log,
                   relStreak, getStreak, grown, panicked>>

\* let s = self.clone(); spawn(sleep(500 ms).then(...))
StepSpawn(h) ==
    /\ run[h].pc = "spawn"
    /\ tasks' = Append(tasks, [s |-> handles[h], due |-> clock + DATE_UPDATE_MS])
    /\ Goto(h, [run[h] EXCEPT !.pc = "read"])
    /\ UNCHANGED <<builder, heap, handles, clock, start, call, seen, log,
                   relStreak, getStreak, grown, panicked>>

\* the date bytes are copied behind dst, or date.1.current is returned
StepRead(h) ==
    /\ run[h].pc = "read"
    /\ \E d \in {heap[handles[h]].date[2]} :
          call' = [op |-> run[h].op, h |-> h, arg |-> run[h].arg,
                   val |-> IF run[h].op = "set_date"
                           THEN run[h].arg.dst \o DateBlock(d.bytes, run[h].arg.full)
                           ELSE d.current]
    /\ Goto(h, Idle)
    /\ UNCHANGED <<builder, heap, handles, tasks, clock, start, seen, log,
                   relStreak, getStreak, grown, panicked>>

\* the event loop polls a spawned future between calls
PollTask == Exclusive /\ RunTask

CloneBetweenCalls == Exclusive /\ CallClone

CallGetBytes ==
    \E h \in DOMAIN handles :
        LET i == handles[h]
            r == get_bytes(heap[i].bytes)
        IN  /\ heap' = [heap EXCEPT ![i].bytes = r.pool]
            /\ call' = [op |-> "get_bytes", h |-> h, arg |-> NoArg, val |-> r.bytes,
                        fresh |-> r.fresh]
            /\ getStreak' = IF relStreak < POOL_LIMIT + 1 /\ getStreak = 0 THEN 0
                            ELSE IF getStreak < POOL_LIMIT + 1 THEN getStreak + 1
                            ELSE getStreak
            /\ relStreak' = 0
            /\ UNCHANGED <<builder, handles, tasks, clock, start, seen, log, grown, panicked, run>>

CallReleaseBytes ==
    \E h \in DOMAIN handles, bytes \in BufInputs :
        LET i == handles[h]
        IN  /\ grown + bytes.cap <= MaxGrown
            /\ heap' = [heap EXCEPT ![i].bytes = release_bytes(@, bytes)]
            /\ call' = [op |-> "release_bytes", h |-> h, arg |-> bytes, val |-> None]
            /\ grown' = grown + bytes.cap
            /\ relStreak' = IF relStreak = 0 /\ heap[i].bytes # <<>> THEN 0
                            ELSE IF relStreak < POOL_LIMIT + 1 THEN relStreak + 1
                            ELSE relStreak
            /\ getStreak' = 0
            /\ UNCHANGED <<builder, handles, tasks, clock, start, seen, log, panicked, run>>

\* a buffer is released while the pool is empty
ReleaseIntoEmptyPool ==
    /\ \A i \in DOMAIN heap : heap[i].bytes = <<>>
    /\ CallReleaseBytes

----------------------------------------------------------------------------
(* Specifications *)

\* nothing was called yet
Quiet ==
    /\ tasks = <<>>
    /\ clock = 0
    /\ seen = NotSeen
    /\ log = NoLog
    /\ relStreak = 0
    /\ getStreak = 0
    /\ grown = 0
    /\ panicked = FALSE
    /\ run = NoRun

\* the life of a configuration: a builder is configured and finished, and the
\* ServiceConfig is asked for its policy values, its clock and its timers
Init ==
    /\ Quiet
    /\ start = 784111777
    /\ builder = BuilderNew
    /\ heap = <<>>
    /\ handles = <<>>
    /\ call = [op |-> "build", h |-> 0, arg |-> NoArg, val |-> None]

Next ==
    /\ ~panicked
    /\ \/ Tick
       \/ BuilderSecure
       \/ BuilderKeepAlive
       \/ BuilderClientTimeout
       \/ BuilderClientShutdown
       \/ BuilderServerHostname
       \/ BuilderServerAddress
       \/ BuilderFinish
       \/ CallKeepAlive
       \/ CallKeepAliveEnabled
       \/ CallNow
       \/ CallClientTimer
       \/ CallClientTimerExpire
       \/ CallClientShutdownTimer
       \/ CallKeepAliveTimer
       \/ CallKeepAliveExpire
       \/ RunTask

Spec == Init /\ [][Next]_vars

\* the cached date: a ServiceConfig made by ServiceConfig::new, read through its clones
DateConfigs ==
    { <<ka, ms, ms>> : ka \in {Os, Timeout(5)}, ms \in {0, 5000} }

DateInit ==
    /\ Quiet
    /\ start \in StartTimes
    /\ builder = NoBuilder
    /\ \E c \in DateConfigs : heap = <<ServiceConfigNew(c[1], c[2], c[3], 0)>>
    /\ handles = <<1>>
    /\ call = [op |-> "new", h |-> 0, arg |-> NoArg, val |-> 1]

DateNext ==
    /\ ~panicked
    /\ \/ Tick
       \/ CallClone
       \/ CallSetDate
       \/ CallNow
       \/ CallClientTimer
       \/ CallClientTimerExpire
       \/ CallClientShutdownTimer
       \/ CallKeepAliveTimer
       \/ CallKeepAliveExpire
       \/ RunTask

DateSpec == DateInit /\ [][DateNext]_vars

\* the cached date under an event loop that runs every spawned future at the
\* instant its sleep is over
TimedNext ==
    /\ ~panicked
    /\ \/ TimerTick
       \/ CallClone
       \/ CallSetDate
       \/ CallNow
       \/ CallClientTimer
       \/ CallKeepAliveTimer
       \/ RunTask

TimedSpec == DateInit /\ [][TimedNext]_vars

\* set_date and now() run statement by statement on the thread of the worker
StepNext ==
    /\ ~panicked
    /\ \/ Tick
       \/ CloneBetweenCalls
       \/ EnterSetDate
       \/ EnterNow
       \/ \E h \in DOMAIN handles : StepTest(h)
       \/ \E h \in DOMAIN handles : StepUpdate(h)
       \/ \E h \in DOMAIN handles : StepWrite(h)
       \/ \E h \in DOMAIN handles : StepMark(h)
       \/ \E h \in DOMAIN handles : StepSpawn(h)
       \/ \E h \in DOMAIN handles : StepRead(h)
       \/ PollTask

StepSpec == DateInit /\ [][StepNext]_vars

\* the refresh of the cached date while the event loop of the worker runs: a
\* spawned future whose sleep is over is run in the end. Nothing makes a caller
\* read the date
RefreshNext ==
    /\ ~panicked
    /\ \/ Tick
       \/ CallClone
       \/ CallNow
       \/ RunTask

RefreshSpec == DateInit /\ [][RefreshNext]_vars /\ WF_vars(~panicked /\ RunTask)

\* the buffer pool of a ServiceConfig built with the defaults
PoolInit ==
    /\ Quiet
    /\ start = 784111777
    /\ builder = NoBuilder
    /\ heap = <<finish(BuilderNew, 0)>>
    /\ handles = <<1>>
    /\ call = [op |-> "finish", h |-> 0, arg |-> NoArg, val |-> 1]

PoolNext ==
    /\ ~panicked
    /\ \/ CallGetBytes
       \/ CallReleaseBytes

PoolSpec == PoolInit /\ [][PoolNext]_vars

\* every operation of a ServiceConfig made by ServiceConfig::new and of its clones
ConfigNext ==
    /\ ~panicked
    /\ \/ Tick
       \/ CallClone
       \/ CallKeepAlive
       \/ CallKeepAliveEnabled
       \/ CallSetDate
       \/ CallNow
       \/ CallClientTimer
       \/ CallClientTimerExpire
       \/ CallClientShutdownTimer
       \/ CallKeepAliveTimer
       \/ CallKeepAliveExpire
       \/ RunTask
       \/ CallGetBytes
       \/ ReleaseIntoEmptyPool

\* with every duration configured, or with none
ConfigInit ==
    /\ DateInit
    /\ start = 784111777
    /\ heap[1].keep_alive.some <=> heap[1].client_timeout # 0

ConfigSpec == ConfigInit /\ [][ConfigNext]_vars

\* the clones of one ServiceConfig: the date and the buffers seen through them
SharedNext ==
    /\ ~panicked
    /\ \/ Tick
       \/ CallClone
       \/ CallNow
       \/ RunTask
       \/ CallGetBytes
       \/ ReleaseIntoEmptyPool

SharedSpec == PoolInit /\ [][SharedNext]_vars


----------------------------------------------------------------------------
(* Shorthands of the claims *)

\* the Inner the most recent call was made on
Called == heap[handles[call.h]]

\* the cached date value
DateBytes(inner) == inner.date[2].bytes

\* the pending tasks that hold a handle to Inner i
Pending(i) == {k \in DOMAIN tasks : tasks[k].s = i}

\* the buffers in the pool of the ServiceConfig, the front first
Pool == heap[1].bytes

\* the builder was finished and a ServiceConfig exists
Finished == builder = NoBuilder /\ heap # <<>>

----------------------------------------------------------------------------
(* The claims *)

\* C1: two set_date calls with the same `full` flag, through any handles, with no
\* refresh task run between them, append the same bytes: every set_date appends
\* what the first set_date with its flag since the last run of a task appended.
C1_SameWindowSameBytes ==
    (call.op = "set_date" /\ seen[call.arg.full].some) =>
        LET first == seen[call.arg.full].val
        IN  Appended(call.arg.dst, call.val) = Appended(first.dst, first.val)

\* a set_date was answered from the cache, later than and through another handle
\* than the read that filled it, and after another set_date with its flag
C1_Witness ==
    /\ call.op = "set_date"
    /\ call.arg.full
    /\ seen[TRUE].some
    /\ seen[TRUE].val.dst # call.arg.dst
    /\ call.h = 2
    /\ Called.date[1]
    /\ Called.date[2].current + 1000 <= clock

\* C5: set_date(dst, full = true) appends 39 bytes: "date: ", the 29 bytes of the
\* cached date value, CR LF CR LF; set_date(dst, full = false) appends the 29 bytes
\* of the cached value; what dst held stays in front, unchanged.
C5_SetDateAppends ==
    call.op = "set_date" =>
        LET dst  == call.arg.dst
            date == DateBytes(Called)
            app  == Appended(dst, call.val)
        IN  /\ Len(date) = 29
            /\ SubSeq(call.val, 1, Len(dst)) = dst
            /\ IF call.arg.full
               THEN /\ Len(app) = 39
                    /\ app = <<100, 97, 116, 101, 58, 32>> \o date \o <<13, 10, 13, 10>>
               ELSE /\ Len(app) = 29
                    /\ app = date

\* a full date block was appended to a destination that held a byte
C5_Witness ==
    /\ call.op = "set_date"
    /\ call.arg.full
    /\ call.arg.dst = <<120>>
    /\ Len(call.val) = 40

\* C10: a ServiceConfig never has more than one refresh task spawned and not yet
\* run, and every step that turns its cache from not valid to valid spawns
\* exactly one.
C10_OneRefreshTask ==
    /\ [](\A i \in DOMAIN heap : Cardinality(Pending(i)) <= 1)
    /\ [][\A i \in DOMAIN heap :
            (~heap[i].date[1] /\ heap'[i].date[1]) =>
                Cardinality(Pending(i))' = Cardinality(Pending(i)) + 1]_vars

\* the cache was filled, invalidated by its task and filled again through a clone
C10_Witness ==
    /\ Len(tasks) = 1
    /\ tasks[1].due > DATE_UPDATE_MS
    /\ heap[1].date[1]
    /\ call.op \in {"now", "keep_alive_timer", "client_timer"}
    /\ call.h = 2

\* C6: a ServiceConfig finished by a builder whose secure() was not called has
\* client_shutdown = 0 and its client_shutdown_timer() returns None, whatever was
\* passed to client_shutdown(ms); if secure() was called, before or after
\* client_shutdown(ms), the last value passed to client_shutdown(ms) is kept.
C6_ShutdownNeedsSecure ==
    Finished =>
        /\ ~log.secure =>
              /\ heap[1].client_shutdown = 0
              /\ call.op = "client_shutdown_timer" => call.val = None
        /\ (log.secure /\ log.shutdown.some) =>
              heap[1].client_shutdown = log.shutdown.val

\* client_shutdown(3000) without secure(), then client_shutdown_timer() was asked
C6_Witness ==
    /\ Finished
    /\ ~log.secure
    /\ log.shutdown = Some(3000)
    /\ call.op = "client_shutdown_timer"

\* C7: for a policy passed to the builder, keep_alive() is None for Disabled and
\* for Os and Some(secs) only for Timeout(secs) with secs > 0, so Timeout(0) gives
\* None; keep_alive_enabled() is false exactly for Disabled; keep_alive() being
\* Some implies keep_alive_enabled().
C7_KeepAlivePolicy ==
    (Finished /\ log.policy.some) =>
        LET p == log.policy.val
            expected == IF p.tag = "Timeout" /\ p.val > 0 THEN Some(p.val) ELSE None
        IN  /\ call.op = "keep_alive" => call.val = expected
            /\ call.op = "keep_alive_enabled" => call.val = (p.tag # "Disabled")
            /\ heap[1].keep_alive = expected
            /\ heap[1].ka_enabled = (p.tag # "Disabled")
            /\ heap[1].keep_alive.some => heap[1].ka_enabled

\* keep_alive() was asked of a ServiceConfig built with Timeout(0)
C7_Witness ==
    /\ Finished
    /\ log.policy = Some(Timeout(0))
    /\ call.op = "keep_alive"
    /\ heap[1].ka_enabled

\* C8: client_timer, client_timer_expire and client_shutdown_timer return None
\* when their configuration in ms is 0 and else the cached snapshot of now() plus
\* the configured duration; keep_alive_timer and keep_alive_expire return None
\* exactly when keep_alive() is None and else the snapshot plus keep_alive.
C8_TimerDeadlines ==
    (Finished /\ call.h \in DOMAIN handles) =>
        LET inner == Called
            snapshot == inner.date[2].current
            After(ms) == IF ms = 0 THEN None ELSE Some(snapshot + ms)
        IN  /\ call.op \in {"client_timer", "client_timer_expire"} =>
                  call.val = After(inner.client_timeout)
            /\ call.op = "client_shutdown_timer" =>
                  call.val = After(inner.client_shutdown)
            /\ call.op \in {"keep_alive_timer", "keep_alive_expire"} =>
                  call.val = IF inner.keep_alive.some
                             THEN Some(snapshot + 1000 * inner.keep_alive.val)
                             ELSE None

\* client_shutdown_timer() gave a deadline from a snapshot older than the clock,
\* with the client timeout disabled
C8_Witness ==
    /\ Finished
    /\ call.op = "client_shutdown_timer"
    /\ call.val.some
    /\ heap[1].client_timeout = 0
    /\ heap[1].date[2].current < clock
    /\ call.val.val = heap[1].date[2].current + 3000

\* C9: a builder finished with no configuration call gives keep_alive() = 5 s,
\* keep_alive_enabled(), client_timeout = 5000 ms and client_shutdown = 0; the
\* address of the untouched builder is 127.0.0.1:8080.
C9_BuilderDefaults ==
    ~log.touched =>
        /\ builder # NoBuilder => builder.addr = "127.0.0.1:8080"
        /\ Finished =>
              /\ heap[1].keep_alive = Some(5)
              /\ heap[1].ka_enabled
              /\ heap[1].client_timeout = 5000
              /\ heap[1].client_shutdown = 0
              /\ call.op = "keep_alive" => call.val = Some(5)
              /\ call.op = "keep_alive_enabled" => call.val = TRUE

\* keep_alive() was asked of a ServiceConfig finished without a configuration call
C9_Witness ==
    /\ Finished
    /\ ~log.touched
    /\ call.op = "keep_alive"

\* C2: the pool never holds more than 128 buffers; after 129 releases in a row
\* into an empty pool it holds exactly 128, and of the get_bytes calls in a row
\* that follow, the first 128 return a pooled buffer and the 129th a new one.
C2_PoolBounded ==
    /\ Len(Pool) <= 128
    /\ relStreak = 129 => Len(Pool) = 128
    /\ getStreak \in 1..128 => (call.op = "get_bytes" /\ ~call.fresh)
    /\ getStreak = 129 => (call.op = "get_bytes" /\ call.fresh)

\* 129 releases in a row into the empty pool, then 129 get_bytes in a row
C2_Witness ==
    /\ getStreak = 129
    /\ call.op = "get_bytes"
    /\ call.fresh
    /\ Pool = <<>>

\* C3: every buffer in the pool has length 0, and so has every buffer get_bytes
\* returns, whatever length the released buffers had.
C3_PooledBuffersEmpty ==
    /\ \A j \in DOMAIN Pool : Pool[j].len = 0
    /\ call.op = "get_bytes" => call.val.len = 0

\* a buffer of length 1 was released and is now at the front of the pool
C3_Witness ==
    /\ call.op = "release_bytes"
    /\ call.arg = [len |-> 1, cap |-> 1]
    /\ Pool # <<>>
    /\ Head(Pool) = [len |-> 0, cap |-> 1]

\* C4: get_bytes on a pool that is not empty removes and returns the buffer at
\* the front, which is where a release that the pool accepts puts its buffer;
\* on an empty pool it returns a new empty buffer and leaves the pool empty.
C4_GetBytesLifo ==
    [][ /\ call'.op = "get_bytes" =>
              IF Pool # <<>>
              THEN /\ call'.val = Head(Pool)
                   /\ Pool' = Tail(Pool)
                   /\ ~call'.fresh
              ELSE /\ call'.val = [len |-> 0, cap |-> 0]
                   /\ Pool' = <<>>
                   /\ call'.fresh
        /\ (call'.op = "release_bytes" /\ Len(Pool) < 128) =>
              /\ Pool' # <<>>
              /\ Head(Pool').cap = call'.arg.cap
              /\ Tail(Pool') = Pool ]_vars

\* get_bytes returned the grown buffer, released last, from above other buffers
C4_Witness ==
    /\ call.op = "get_bytes"
    /\ ~call.fresh
    /\ call.val = [len |-> 0, cap |-> 1]
    /\ Len(Pool) >= 2

\* the step ran a task spawned for Inner i
RanTask(i) == Cardinality(Pending(i))' < Cardinality(Pending(i))

\* the step was a call on Inner i that reads the cached date: set_date, now, or a
\* timer accessor whose duration is configured
ReadCall(i) ==
    /\ ~RanTask(i)
    /\ clock' = clock
    /\ handles' = handles
    /\ ~panicked'
    /\ handles[call'.h] = i
    /\ \/ call'.op \in {"set_date", "now"}
       \/ /\ call'.op \in {"client_timer", "client_timer_expire", "client_shutdown_timer",
                            "keep_alive_timer", "keep_alive_expire"}
          /\ call'.val.some

\* C11: a read (set_date, now) of a cache that is not valid formats the current
\* instant into the bytes, takes the instant as the snapshot and sets the flag,
\* in one step; a read of a valid cache changes neither bytes, snapshot nor flag;
\* the spawned task only clears the flag, leaving bytes and snapshot as they
\* were; no other step changes the cache.
C11_CacheTransitions ==
    [][\A i \in DOMAIN heap :
          LET before == heap[i].date
              after  == heap'[i].date
          IN  /\ RanTask(i) => after = <<FALSE, before[2]>>
              /\ (ReadCall(i) /\ ~before[1]) =>
                      /\ after[1]
                      /\ after[2].current = clock
                      /\ after[2].pos = DATE_VALUE_LENGTH
                      /\ after[2].bytes = Rfc822(WallSecs(clock))
              /\ (ReadCall(i) /\ before[1]) => after = before
              /\ (~RanTask(i) /\ ~ReadCall(i)) => after = before]_vars

\* the cache was filled, made stale by its task a second later, and filled again
\* by a set_date: it holds the date of the later second
C11_Witness ==
    /\ call.op = "set_date"
    /\ heap[1].date[1]
    /\ heap[1].date[2].current = 1000
    /\ heap[1].date[2].bytes = Rfc822(start + 1)
    /\ heap[1].date[2].bytes # Rfc822(start)
    /\ Len(tasks) = 1

\* the cache of the ServiceConfig is not valid and the last call read the date:
\* it was filled by a read and the task spawned for it has fired since
Fired == ~heap[1].date[1] /\ call.op \in {"set_date", "now"}

\* a refresh task of the ServiceConfig is spawned and has not run
Outstanding == Pending(1) # {}

\* C12 as stated: once the cache has been filled, after every firing of the
\* refresh task another refresh task eventually becomes outstanding, with no
\* more assumed than that the event loop runs the tasks it has.
C12_Original == Fired ~> Outstanding

\* C12, amended: the refresh task is never cancelled, it leaves only by running;
\* it fires once and spawns nothing, so no task is outstanding after it fires
\* until a read fills the cache again, and that read spawns the next one. Hence
\* in every behaviour in which now() is called in the end whenever the cache
\* stays not valid, a cache that is not valid leads to a refresh task outstanding.
C12_RefreshOnRead ==
    /\ [][/\ Len(tasks') < Len(tasks) => (~heap'[1].date[1] /\ ~Outstanding')
          /\ (~heap[1].date[1] /\ ReadCall(1)) => (~Outstanding /\ Outstanding')
          /\ (~Outstanding /\ Outstanding') => ReadCall(1)]_vars
    /\ WF_vars(~panicked /\ CallNow) => (~heap[1].date[1] ~> Outstanding)

\* the task fired twice and each time a later read spawned the next one: the
\* third task is outstanding
C12_Witness ==
    /\ Outstanding
    /\ tasks[1].due = 3 * DATE_UPDATE_MS
    /\ heap[1].date[1]
    /\ heap[1].date[2].current = 2 * DATE_UPDATE_MS

\* C13: when the event loop runs the refresh task at the instant its 500 ms sleep
\* is over, a valid cache holds a date captured no more than 500 ms ago, now()
\* returns the instant of that capture and set_date appends the date formatted
\* at that capture: no read returns a value older than 500 ms.
C13_StaleAtMost500 ==
    /\ [](\A i \in DOMAIN heap :
            heap[i].date[1] => clock - heap[i].date[2].current <= DATE_UPDATE_MS)
    /\ [][\A i \in DOMAIN heap :
            ReadCall(i) =>
                LET d == heap'[i].date[2]
                IN  /\ clock - d.current <= DATE_UPDATE_MS
                    /\ d.current <= clock
                    /\ call'.op = "now" => call'.val = d.current
                    /\ call'.op = "set_date" =>
                           Appended(call'.arg.dst, call'.val)
                               = DateBlock(Rfc822(WallSecs(d.current)), call'.arg.full)]_vars

\* a set_date was answered from the cache at the very end of its 500 ms, at the
\* instant the task is due and before it ran, with a date of the second before
C13_Witness ==
    /\ call.op = "set_date"
    /\ heap[1].date[1]
    /\ heap[1].date[2].current = DATE_UPDATE_MS
    /\ clock = 2 * DATE_UPDATE_MS
    /\ Appended(call.arg.dst, call.val) = DateBlock(Rfc822(start), call.arg.full)
    /\ Rfc822(start) # Rfc822(WallSecs(clock))

\* the date buffer holds one whole formatted value, that of the snapshot
Complete(d) ==
    /\ d.pos = DATE_VALUE_LENGTH
    /\ d.bytes = Rfc822(WallSecs(d.current))

\* the call through handle h saw the cache not valid and has not marked it valid yet
Reformatting(h) == run[h].pc \in {"update", "write", "mark"}

\* C14: no read observes a partially written date buffer. A call that is about
\* to copy the date bytes or to return the snapshot finds the buffer holding one
\* whole formatted value, that of the snapshot; so does every call while the
\* cache is marked valid; the refresh task never runs while a call is between
\* seeing the cache not valid and marking it valid; and what set_date appends
\* and what now() returns belong to one and the same completed format.
C14_NoPartialRead ==
    /\ [](\A h \in DOMAIN handles :
            run[h].pc = "read" => Complete(heap[handles[h]].date[2]))
    /\ [](\A i \in DOMAIN heap : heap[i].date[1] => Complete(heap[i].date[2]))
    /\ [][Len(tasks') < Len(tasks) => \A h \in DOMAIN handles : ~Reformatting(h)]_vars
    /\ [][\A h \in DOMAIN handles :
            (run[h].pc = "read" /\ run'[h] = Idle) =>
                \E d \in {heap[handles[h]].date[2]} :
                    /\ call'.op = "now" => call'.val = d.current
                    /\ call'.op = "set_date" =>
                           Appended(call'.arg.dst, call'.val)
                               = DateBlock(Rfc822(WallSecs(d.current)), call'.arg.full)]_vars

\* a set_date through the second handle found the cache not valid after the task
\* had run, formatted the date of the next second piece by piece and appended it
C14_Witness ==
    /\ Exclusive
    /\ call.op = "set_date"
    /\ call.h = 2
    /\ heap[1].date[1]
    /\ heap[1].date[2].current = 2 * DATE_UPDATE_MS
    /\ Appended(call.arg.dst, call.val) = DateBlock(Rfc822(start + 1), call.arg.full)
    /\ Rfc822(start + 1) # Rfc822(start)
    /\ Len(tasks) = 1

\* C15: the formatted date is always exactly 29 bytes. Whenever Date::update has
\* returned, at construction and at every refresh, pos stands at 29, having been
\* set back to 0 before the text was written; the buffer is 29 bytes long and
\* the whole of it is the text formatted at the snapshot, itself 29 bytes long;
\* no write_str ever went beyond the buffer.
C15_DateAlways29 ==
    /\ ~panicked
    /\ \A i \in DOMAIN heap :
          \E d \in {heap[i].date[2]} :
              /\ d.pos = DATE_VALUE_LENGTH
              /\ Len(d.bytes) = DATE_VALUE_LENGTH
              /\ d.bytes = Rfc822(WallSecs(d.current))

\* the date was formatted at construction, on 29 Feb 2000 23:59:59, and again a
\* second later, on 1 Mar 2000: the second text replaced all of the first
C15_Witness ==
    /\ start = 951868799
    /\ heap[1].date[1]
    /\ heap[1].date[2].current = 1000
    /\ heap[1].date[2].pos = 29
    /\ heap[1].date[2].bytes =
           <<87, 101, 100, 44, 32, 48, 49, 32, 77, 97, 114, 32, 50, 48, 48, 48, 32,
             48, 48, 58, 48, 48, 58, 48, 48, 32, 71, 77, 84>>

\* C16: release_bytes on a pool that holds 128 buffers drops the buffer it was
\* given: the pool holds the same buffers in the same order after it, so that
\* the next get_bytes returns the buffer that was at the front before the
\* release and leaves the others.
C16_ReleaseWhenFull ==
    [][(call'.op = "release_bytes" /\ Len(Pool) = POOL_LIMIT) =>
          /\ Pool' = Pool
          /\ \E r \in {get_bytes(Pool')} :
                /\ ~r.fresh
                /\ r.bytes = Head(Pool)
                /\ r.pool = Tail(Pool)]_vars

\* a buffer with capacity was released into a pool holding 128 buffers, none of
\* which has capacity: it is not in the pool
C16_Witness ==
    /\ call.op = "release_bytes"
    /\ call.arg.cap = 1
    /\ grown = 1
    /\ Len(Pool) = POOL_LIMIT
    /\ \A k \in DOMAIN Pool : Pool[k].cap = 0

\* C17: server_address with an address that does not resolve, or that resolves
\* to no address, leaves the address and every other field of the builder as
\* they were and does not abort: the builder is still there to be configured
\* and finished, and a finish() after it produces a ServiceConfig.
C17_UnresolvedAddress ==
    /\ [][(call'.op = "server_address" /\ (call'.arg.err \/ call'.arg.addrs = <<>>)) =>
              /\ builder' = builder
              /\ builder' # NoBuilder
              /\ ~panicked'
              /\ heap' = heap]_vars
    /\ []((log.unresolved /\ builder = NoBuilder) =>
              /\ ~panicked
              /\ Len(heap) = 1
              /\ handles = <<1>>
              /\ heap[1].date[2].pos = DATE_VALUE_LENGTH)
    /\ []((log.unresolved /\ builder # NoBuilder /\ log.policy = None /\ ~log.secure) =>
              \E inner \in {finish(builder, clock)} :
                  /\ inner.keep_alive = Some(5)
                  /\ inner.client_shutdown = 0
                  /\ inner.client_timeout \in TimeoutInputs \cup {5000})

\* no address could be resolved for a builder, which was finished afterwards:
\* the ServiceConfig answers calls
C17_Witness ==
    /\ log.unresolved
    /\ Finished
    /\ call.op = "now"
    /\ call.h = 1
    /\ Called.date[1]

\* C18: between calls, the cache of a ServiceConfig is valid exactly when one
\* refresh task spawned for it has not run yet; the event loop runs every task
\* it was given and drops none.
C18_ValidIffOneTask ==
    \A i \in DOMAIN heap :
        /\ heap[i].date[1] <=> Cardinality(Pending(i)) = 1
        /\ ~heap[i].date[1] <=> Pending(i) = {}

\* the cache was filled by a set_date and its task has run since: it is not
\* valid and no task is left
C18_Witness ==
    /\ call.op = "set_date"
    /\ seen = NotSeen
    /\ ~heap[1].date[1]
    /\ tasks = <<>>
    /\ clock >= DATE_UPDATE_MS

\* the step was a call of the pool operation op
PoolCall(op) == call'.op = op /\ clock' = clock /\ tasks' = tasks

\* C19: the clones of a ServiceConfig share one cached date and one buffer
\* pool. Whatever handle is used, the cache and the pool seen are the same; when
\* the refresh task, which holds a clone of its own, has run, the cache is not
\* valid through any handle, and the next read through whichever handle formats
\* the date anew for all of them; a buffer released through one handle is the
\* buffer the next get_bytes returns through any handle.
C19_ClonesShare ==
    /\ [](\A g, h \in DOMAIN handles :
            /\ heap[handles[g]].date = heap[handles[h]].date
            /\ heap[handles[g]].bytes = heap[handles[h]].bytes)
    /\ [][\A i \in DOMAIN heap :
            /\ RanTask(i) =>
                  \A g \in DOMAIN handles :
                      /\ ~heap'[handles[g]].date[1]
                      /\ \E r \in {now(handles[g], clock)'} :
                            /\ r.inner.date[1]
                            /\ r.inner.date[2].current = clock
                            /\ r.val = clock
            /\ (ReadCall(i) /\ ~heap[i].date[1]) =>
                  \A g \in DOMAIN handles :
                      /\ heap'[handles[g]].date[1]
                      /\ heap'[handles[g]].date[2].current = clock]_vars
    /\ [][(PoolCall("release_bytes") /\ Len(heap[handles[call'.h]].bytes) < POOL_LIMIT) =>
              \A g \in DOMAIN handles :
                  \E r \in {get_bytes(heap'[handles[g]].bytes)} :
                      /\ ~r.fresh
                      /\ r.bytes = Clear(call'.arg)]_vars
    /\ [][PoolCall("get_bytes") =>
              \A g \in DOMAIN handles :
                  \E r \in {get_bytes(heap[handles[g]].bytes)} :
                      /\ call'.val = r.bytes
                      /\ call'.fresh = r.fresh
                      /\ heap'[handles[g]].bytes = r.pool]_vars

\* through the second handle, a get_bytes returned a buffer with capacity that
\* had been released, while the cache stood filled again after its task had run
C19_Witness ==
    /\ Len(handles) = 2
    /\ call.op = "get_bytes"
    /\ call.h = 2
    /\ ~call.fresh
    /\ call.val.cap = 1
    /\ heap[1].date[1]
    /\ heap[1].date[2].current >= DATE_UPDATE_MS

\* the timer accessor op has nothing to time for this Inner: its duration is 0,
\* or there is no keep-alive duration
TimerOff(op, inner) ==
    \/ op \in {"client_timer", "client_timer_expire"} /\ inner.client_timeout = 0
    \/ op = "client_shutdown_timer" /\ inner.client_shutdown = 0
    \/ op \in {"keep_alive_timer", "keep_alive_expire"} /\ ~inner.keep_alive.some

\* the step was a call through a handle, of the operation and with the result in call'
WasCall == clock' = clock /\ handles' = handles /\ Len(tasks') >= Len(tasks) /\ call'.h > 0

\* C20: a timer accessor whose duration is not configured returns None and
\* leaves the cached date untouched: flag, bytes and snapshot stay and no task
\* is spawned. And no operation on a ServiceConfig, whichever handle it is
\* made through, and no run of the refresh task, ever changes keep_alive,
\* ka_enabled, client_timeout or client_shutdown.
C20_TimersOffAndPolicyFixed ==
    /\ [][(WasCall /\ TimerOff(call'.op, heap[handles[call'.h]])) =>
              /\ call'.val = None
              /\ tasks' = tasks
              /\ \A i \in DOMAIN heap : heap'[i].date = heap[i].date]_vars
    /\ [][\A i \in DOMAIN heap :
              /\ heap'[i].keep_alive = heap[i].keep_alive
              /\ heap'[i].ka_enabled = heap[i].ka_enabled
              /\ heap'[i].client_timeout = heap[i].client_timeout
              /\ heap'[i].client_shutdown = heap[i].client_shutdown]_vars

\* keep_alive_timer was called a second after construction on a ServiceConfig
\* with no keep-alive duration: the date was never read and no task was spawned
C20_Witness ==
    /\ call.op = "keep_alive_timer"
    /\ call.val = None
    /\ ~Called.keep_alive.some
    /\ Called.ka_enabled
    /\ clock = 2 * DATE_UPDATE_MS
    /\ ~Called.date[1]
    /\ Called.date[2].current = 0
    /\ tasks = <<>>

====
